---- MODULE Spec2Model ----
(***************************************************************************)
(* Model of _custom_get_exposed_entities, the entity exposure filter of    *)
(* the openai_conversation integration (src/openai_conversation/           *)
(* __init__.py, lines 45-148).                                             *)
(*                                                                         *)
(* The function reads the state machine (hass.states), the entity, area    *)
(* and device registries and the exposure settings, loops once over the    *)
(* states and returns a dict with the buckets "script", "calendar" and     *)
(* "entities".  One action models one loop iteration; the call and the     *)
(* return are actions of their own, and the function may be called again   *)
(* after it returned.                                                      *)
(***************************************************************************)
EXTENDS Integers, Sequences, FiniteSets, TLC

VARIABLES
    states,           \* hass.states.async_all(): the states, in iteration order
    entity_registry,  \* er.async_get(hass): entity_id -> registry entry
    area_registry,    \* ar.async_get(hass): area_id -> area entry
    device_registry,  \* dr.async_get(hass): device_id -> device entry
    exposed,          \* the exposure settings async_should_expose consults
    assistant,        \* the assistant argument of the call
    pc,               \* "idle", "loop" or "returned"
    idx,              \* position of the for loop in states
    entities,         \* the local dict entities
    data,             \* the local dict data
    returned          \* the reports returned so far, one per call

inputs == <<states, entity_registry, area_registry, device_registry, exposed, assistant>>
vars == <<states, entity_registry, area_registry, device_registry, exposed, assistant,
          pc, idx, entities, data, returned>>

-----------------------------------------------------------------------------
(* Bounds of the model. *)

MaxEntities == 2   \* states in a snapshot of the routing family
MaxAliases == 2    \* aliases of a registry entry
MaxAttrs == 2      \* attributes of a state
MaxCalls == 2      \* calls of the function in one behaviour

-----------------------------------------------------------------------------
(* Python values.  A value carries its type; bool is a subclass of int.    *)

PyInt(n) == [kind |-> "int", v |-> n]
PyBool(b) == [kind |-> "bool", b |-> b]
PyStr(s) == [kind |-> "str", s |-> s]
\* a float with one decimal digit, tenths/10
PyFloat(t) == [kind |-> "float", tenths |-> t]
\* a member of a plain enum.Enum class
PyEnum(c, m) == [kind |-> "Enum", cls |-> c, member |-> m]
\* decimal.Decimal with one fractional digit, units.frac
PyDecimal(u, f) == [kind |-> "Decimal", units |-> u, frac |-> f]
PyNone == [kind |-> "NoneType"]

\* The classes a value is an instance of: isinstance(True, int) is True in
\* Python, every other kind is an instance of its own class only.
ClassesOf(x) == IF x.kind = "bool" THEN {"bool", "int"} ELSE {x.kind}

IsInstance(x, classes) == ClassesOf(x) \cap classes # {}

\* str(x) for the classes line 134 names; bool comes with int.
Str(x) ==
    CASE x.kind = "int" -> PyStr(ToString(x.v))
      [] x.kind = "bool" -> PyStr(IF x.b THEN "True" ELSE "False")
      [] x.kind = "Enum" -> PyStr(x.cls \o "." \o x.member)
      [] x.kind = "Decimal" -> PyStr(ToString(x.units) \o "." \o ToString(x.frac))
      [] OTHER -> x

\* round(num / den) for den > 0: Python 3 rounds a tie to the even integer.
PyRound(num, den) ==
    LET q == num \div den
        r == num % den
    IN  IF 2 * r < den THEN q
        ELSE IF 2 * r > den THEN q + 1
        ELSE IF q % 2 = 0 THEN q ELSE q + 1

-----------------------------------------------------------------------------
(* Dicts and optionals.  A dict is a function; None is the empty tuple and *)
(* a present value v is <<v>>.                                             *)

EmptyDict == [k \in {} |-> {}]

DictSet(d, k, v) == [x \in (DOMAIN d) \cup {k} |-> IF x = k THEN v ELSE d[x]]

None == <<>>

Some(v) == <<v>>

\* registry.async_get(id): the entry, or None
Lookup(registry, id) == IF id \in DOMAIN registry THEN Some(registry[id]) ELSE None

\* truth value of an optional identifier: None and "" are false
Truthy(opt) == opt # None /\ opt[1] # ""

RECURSIVE Join(_)
\* ", ".join(seq)
Join(seq) ==
    IF Len(seq) = 0 THEN ""
    ELSE IF Len(seq) = 1 THEN seq[1]
    ELSE seq[1] \o ", " \o Join(Tail(seq))

-----------------------------------------------------------------------------
(* The function, piece by piece.                                           *)

\* the allow-list with the display name let through
interesting_attributes_with_friendly_name ==
    {"temperature", "current_temperature", "temperature_unit", "brightness",
     "humidity", "unit_of_measurement", "device_class", "current_position",
     "percentage", "volume_level", "media_title", "media_artist",
     "media_album_name", "friendly_name"}

interesting_attributes ==
    {"temperature", "current_temperature", "temperature_unit", "brightness",
     "humidity", "unit_of_measurement", "device_class", "current_position",
     "percentage", "volume_level", "media_title", "media_artist",
     "media_album_name"}

SCRIPT_DOMAIN == "script"

CALENDAR_DOMAIN == "calendar"

\* the full scale of a raw brightness value
BrightnessScale == 255

\* async_should_expose(hass, assistant, entity_id): the caller's settings decide
async_should_expose(a, entity_id) == <<a, entity_id>> \in exposed

\* the check made for a fixed assistant instead of the one passed in
SkippedForConversation(state) == ~async_should_expose("conversation", state.entity_id)

\* a state without a registry entry skipped as well
SkippedWithoutEntry(state) ==
    \/ ~async_should_expose(assistant, state.entity_id)
    \/ Lookup(entity_registry, state.entity_id) = None

\* line 90-91: the iteration is skipped (continue)
Skipped(state) == ~async_should_expose(assistant, state.entity_id)

\* the aliases put before the state's own name
names_aliases_first(state, entity_entry) ==
    IF entity_entry # None
    THEN entity_entry[1].aliases \o <<state.name>>
    ELSE <<state.name>>

\* line 95, 99: names = [state.name], extended by the entry's aliases
names(state, entity_entry) ==
    IF entity_entry # None
    THEN <<state.name>> \o entity_entry[1].aliases
    ELSE <<state.name>>

\* an area's name followed by its aliases (lines 104-105, 113-114)
AreaAndAliases(area) == <<area.name>> \o area.aliases

\* the device's area tried before the entity's own
area_names_device_first(entity_entry) ==
    IF entity_entry # None
    THEN LET entry == entity_entry[1]
             device == IF Truthy(entry.device_id)
                       THEN Lookup(device_registry, entry.device_id[1])
                       ELSE None
             device_area == IF device # None /\ Truthy(device[1].area_id)
                            THEN Lookup(area_registry, device[1].area_id[1])
                            ELSE None
             area == IF Truthy(entry.area_id)
                     THEN Lookup(area_registry, entry.area_id[1])
                     ELSE None
         IN  IF device_area # None THEN AreaAndAliases(device_area[1])
             ELSE IF area # None THEN AreaAndAliases(area[1])
             ELSE <<>>
    ELSE <<>>

\* lines 96-114: the entity's area if it resolves, else its device's area
area_names(entity_entry) ==
    IF entity_entry # None
    THEN LET entry == entity_entry[1]
             area == IF Truthy(entry.area_id)
                     THEN Lookup(area_registry, entry.area_id[1])
                     ELSE None
         IN  IF area # None
             THEN AreaAndAliases(area[1])
             ELSE LET device == IF Truthy(entry.device_id)
                                THEN Lookup(device_registry, entry.device_id[1])
                                ELSE None
                  IN  IF device # None
                      THEN LET device_area ==
                                   IF Truthy(device[1].area_id)
                                   THEN Lookup(area_registry, device[1].area_id[1])
                                   ELSE None
                           IN  IF device_area # None
                               THEN AreaAndAliases(device_area[1])
                               ELSE <<>>
                      ELSE <<>>
    ELSE <<>>

\* the numerator and denominator of an int, bool or float value
Numerator(x) ==
    CASE x.kind = "int" -> x.v
      [] x.kind = "bool" -> IF x.b THEN 1 ELSE 0
      [] x.kind = "float" -> x.tenths

Denominator(x) == IF x.kind = "float" THEN 10 ELSE 1

\* int() in place of round(): the quotient truncated
ConvertBrightnessTruncated(attr_value) ==
    (100 * Numerator(attr_value)) \div (BrightnessScale * Denominator(attr_value))

\* line 133: round((attr_value / 255.0) * 100)
ConvertBrightness(attr_value) ==
    PyRound(100 * Numerator(attr_value), BrightnessScale * Denominator(attr_value))

\* lines 131-137: the value stored for an interesting attribute
ConvertAttribute(attr_name, attr_value) ==
    IF attr_name = "brightness" /\ IsInstance(attr_value, {"int", "float"})
    THEN PyInt(ConvertBrightness(attr_value))
    ELSE IF IsInstance(attr_value, {"Enum", "Decimal", "int"})
    THEN Str(attr_value)
    ELSE attr_value

\* lines 128-137: the dict attributes
attributes(state) ==
    [attr_name \in (DOMAIN state.attributes) \cap interesting_attributes |->
        ConvertAttribute(attr_name, state.attributes[attr_name])]

\* line 93: description: str | None = None
description == None

\* lines 116-120: the dict info as first built
BaseInfo(state) ==
    [names |-> Join(names(state, Lookup(entity_registry, state.entity_id))),
     domain |-> state.domain,
     state |-> state.state]

\* lines 122-123: if description: info["description"] = description
WithDescription(info) ==
    IF Truthy(description) THEN DictSet(info, "description", description[1]) ELSE info

\* lines 125-126: if area_names: info["areas"] = ", ".join(area_names)
WithAreas(info, state) ==
    LET a == area_names(Lookup(entity_registry, state.entity_id))
    IN  IF a # <<>> THEN DictSet(info, "areas", Join(a)) ELSE info

\* the attributes stored without the test for emptiness
WithAttributesAlways(info, state) == DictSet(info, "attributes", attributes(state))

\* lines 139-140: if attributes: info["attributes"] = attributes
WithAttributes(info, state) ==
    IF DOMAIN attributes(state) # {}
    THEN DictSet(info, "attributes", attributes(state))
    ELSE info

\* lines 93-140: the record of one exposed state
BuildInfo(state) == WithAttributes(WithAreas(WithDescription(BaseInfo(state)), state), state)

\* data created with the catch-all bucket already in it
FreshDataWithCatchAll ==
    (SCRIPT_DOMAIN :> EmptyDict) @@ (CALENDAR_DOMAIN :> EmptyDict)
    @@ ("entities" :> EmptyDict)

\* data kept from the previous call (a dict shared between calls)
StaleData ==
    IF DOMAIN data = {}
    THEN (SCRIPT_DOMAIN :> EmptyDict) @@ (CALENDAR_DOMAIN :> EmptyDict)
    ELSE data

\* lines 84-87: data as the call creates it
FreshData == (SCRIPT_DOMAIN :> EmptyDict) @@ (CALENDAR_DOMAIN :> EmptyDict)

-----------------------------------------------------------------------------
(* The actions.                                                            *)

\* the call: lines 64-87
Call ==
    /\ pc \in {"idle", "returned"}
    /\ Len(returned) < MaxCalls
    /\ entities' = EmptyDict
    /\ data' = FreshData
    /\ idx' = 1
    /\ pc' = "loop"
    /\ UNCHANGED <<inputs, returned>>

\* lines 90-91: a state that is not exposed
Skip ==
    /\ pc = "loop"
    /\ idx <= Len(states)
    /\ Skipped(states[idx])
    /\ idx' = idx + 1
    /\ UNCHANGED <<inputs, pc, entities, data, returned>>

\* lines 93-145: a state that is exposed
Emit ==
    /\ pc = "loop"
    /\ idx <= Len(states)
    /\ ~Skipped(states[idx])
    /\ LET state == states[idx]
           info == BuildInfo(state)
       IN  IF state.domain \in DOMAIN data
           THEN /\ data' = [data EXCEPT ![state.domain] = DictSet(@, state.entity_id, info)]
                /\ UNCHANGED entities
           ELSE /\ entities' = DictSet(entities, state.entity_id, info)
                /\ UNCHANGED data
    /\ idx' = idx + 1
    /\ UNCHANGED <<inputs, pc, returned>>

\* lines 147-148: data["entities"] = entities; return data
Return ==
    /\ pc = "loop"
    /\ idx > Len(states)
    /\ data' = DictSet(data, "entities", entities)
    /\ returned' = Append(returned, data')
    /\ pc' = "returned"
    /\ UNCHANGED <<inputs, idx, entities>>

Next == Call \/ Skip \/ Emit \/ Return

-----------------------------------------------------------------------------
(* The inputs.  The initial states are the installations the function is   *)
(* called in: four families, each varying one part of the input.           *)

Assistants == {"conversation", "cloud"}

\* A state as hass.states holds it; entity_id is "<domain>.<object_id>".
State(entity_id, domain, name, state, attrs) ==
    [entity_id |-> entity_id, domain |-> domain, name |-> name,
     state |-> state, attributes |-> attrs]

Light(attrs) == State("light.l1", "light", "Light 1", "on", attrs)

LightAttributes ==
    ("brightness" :> PyInt(128)) @@ ("friendly_name" :> PyStr("Light 1"))

\* the states an installation may hold; the last one is of a domain named
\* like the key of the catch-all bucket
StatePool ==
    {Light(LightAttributes),
     State("script.s1", "script", "Morning", "off", EmptyDict),
     State("calendar.c1", "calendar", "Family", "off",
           "friendly_name" :> PyStr("Family")),
     State("entities.e1", "entities", "Odd", "unknown", EmptyDict)}

EntityIds == {s.entity_id : s \in StatePool}

\* the sequences of at most n distinct elements of S
DistinctSeqs(S, n) ==
    UNION {{q \in [1..k -> S] : \A i, j \in 1..k : i # j => q[i] # q[j]} : k \in 0..n}

RegistryEntry(aliases, area_id, device_id) ==
    [aliases |-> aliases, area_id |-> area_id, device_id |-> device_id]

AreaEntry(name, aliases) == [name |-> name, aliases |-> aliases]

DeviceEntry(area_id) == [area_id |-> area_id]

Areas ==
    ("kitchen" :> AreaEntry("Kitchen", <<"Cuisine">>))
    @@ ("garage" :> AreaEntry("Garage", <<>>))

\* the area identifiers an entry may carry: none, two areas, a dangling one
AreaIds == {None, Some("kitchen"), Some("garage"), Some("attic")}

\* the device identifiers an entry may carry: none, a device, a dangling one
DeviceIds == {None, Some("hub"), Some("ghost")}

AliasPool == {"Lamp A", "Bedroom Lamp"}

LightEntry == RegistryEntry(<<"Lamp A">>, Some("kitchen"), None)

\* the exposure settings under which assistant a sees exactly the entities S,
\* and every other assistant sees the rest
ExposedTo(a, S) ==
    {<<a, e>> : e \in S} \cup {<<b, e>> : b \in Assistants \ {a}, e \in EntityIds \ S}

World(st, er, ar, dr, ex, a) ==
    [states |-> st, entity_registry |-> er, area_registry |-> ar,
     device_registry |-> dr, exposed |-> ex, assistant |-> a]

\* routing: every snapshot, assistant and exposure
RoutingWorlds ==
    {World(st, "light.l1" :> LightEntry, Areas, EmptyDict, ExposedTo(a, S), a) :
        st \in DistinctSeqs(StatePool, MaxEntities), a \in Assistants,
        S \in SUBSET EntityIds}

TwoStates(light) == <<light, State("script.s1", "script", "Morning", "off", EmptyDict)>>

\* registries: the light's entry (or none), and the area of its device
RegistryWorlds ==
    {World(TwoStates(Light(LightAttributes)), er, Areas, "hub" :> DeviceEntry(da),
           ExposedTo("conversation", {"light.l1"}), "conversation") :
        er \in {EmptyDict}
               \cup {"light.l1" :> RegistryEntry(al, ai, di) :
                        al \in DistinctSeqs(AliasPool, MaxAliases),
                        ai \in AreaIds, di \in DeviceIds},
        da \in AreaIds}

AttrNamePool == {"brightness", "temperature", "device_class", "friendly_name"}

AttrValuePool ==
    {PyInt(255), PyInt(-3), PyFloat(1275), PyBool(TRUE), PyStr("heat"),
     PyEnum("HVACMode", "HEAT"), PyDecimal(21, 5), PyNone}

\* the attribute dicts of at most MaxAttrs entries
AttrDicts ==
    UNION {[K -> AttrValuePool] :
              K \in {K \in SUBSET AttrNamePool : Cardinality(K) <= MaxAttrs}}

\* attributes: every attribute dict on the light
AttributeWorlds ==
    {World(TwoStates(Light(attrs)), "light.l1" :> LightEntry, Areas, EmptyDict,
           ExposedTo("conversation", {"light.l1"}), "conversation") :
        attrs \in AttrDicts}

\* brightness: every raw integer brightness on the light
BrightnessWorlds ==
    {World(TwoStates(Light("brightness" :> PyInt(v))), "light.l1" :> LightEntry, Areas,
           EmptyDict, ExposedTo("conversation", {"light.l1"}), "conversation") :
        v \in 0..BrightnessScale}

Worlds == RoutingWorlds \cup RegistryWorlds \cup AttributeWorlds \cup BrightnessWorlds

Init ==
    /\ \E w \in Worlds :
          /\ states = w.states
          /\ entity_registry = w.entity_registry
          /\ area_registry = w.area_registry
          /\ device_registry = w.device_registry
          /\ exposed = w.exposed
          /\ assistant = w.assistant
    /\ pc = "idle"
    /\ idx = 1
    /\ entities = EmptyDict
    /\ data = EmptyDict
    /\ returned = <<>>

Spec == Init /\ [][Next]_vars

-----------------------------------------------------------------------------
(* What the properties speak of.                                           *)

\* the three buckets of a report
Buckets == {"script", "calendar", "entities"}

\* the positions of the states the exposure predicate admits
ExposedPositions ==
    {i \in 1..Len(states) : <<assistant, states[i].entity_id>> \in exposed}

\* the buckets of report that hold entity_id as a key
Holders(report, entity_id) ==
    {b \in DOMAIN report : entity_id \in DOMAIN report[b]}

\* the record report holds for entity_id
InfoOf(report, entity_id) ==
    report[CHOOSE b \in Holders(report, entity_id) : TRUE][entity_id]

\* the reports returned so far
Reports == {returned[k] : k \in 1..Len(returned)}

\* whether sub occurs in the string str
Contains(str, sub) ==
    \E i \in 1..(Len(str) - Len(sub) + 1) : SubSeq(str, i, i + Len(sub) - 1) = sub

\* the attribute names of a record of a report
AttributeKeys(info) ==
    IF "attributes" \in DOMAIN info THEN DOMAIN info.attributes ELSE {}

-----------------------------------------------------------------------------
\* C1: an entity the exposure predicate rejects for the assistant of the
\* call is a key of none of the buckets "script", "calendar" and "entities"
\* of a returned report.
C1_UnexposedAbsent ==
    \A report \in Reports : \A i \in 1..Len(states) :
        <<assistant, states[i].entity_id>> \notin exposed
            => \A b \in Buckets \cap DOMAIN report :
                   states[i].entity_id \notin DOMAIN report[b]

\* a report was returned for a snapshot with an exposed and an unexposed
\* state, and the exposed one is in it
C1_Witness ==
    /\ pc = "returned"
    /\ \E i, j \in 1..Len(states) :
          /\ i \in ExposedPositions
          /\ j \notin ExposedPositions
          /\ Holders(returned[1], states[i].entity_id) # {}
          /\ Holders(returned[1], states[j].entity_id) = {}

\* C2: every exposed entity is a key of exactly one bucket of a returned
\* report: "script" for the domain script, "calendar" for the domain
\* calendar, the catch-all "entities" for every other domain, also for a
\* domain named "entities".
C2_ExactlyOneBucket ==
    \A report \in Reports :
        /\ DOMAIN report = Buckets
        /\ \A i \in ExposedPositions :
              Holders(report, states[i].entity_id) =
                  {IF states[i].domain = "script" THEN "script"
                   ELSE IF states[i].domain = "calendar" THEN "calendar"
                   ELSE "entities"}

\* a report holds an entity of the domain "entities" and a script
C2_Witness ==
    /\ pc = "returned"
    /\ \E i, j \in ExposedPositions :
          /\ states[i].domain = "entities"
          /\ states[j].domain = "script"
          /\ Holders(returned[1], states[i].entity_id) = {"entities"}
          /\ Holders(returned[1], states[j].entity_id) = {"script"}

\* the registry entry of the state at position i, or None
EntryAt(i) == Lookup(entity_registry, states[i].entity_id)

\* the area the entry's own area_id resolves to, or None
DirectArea(entry) ==
    IF Truthy(entry.area_id) THEN Lookup(area_registry, entry.area_id[1]) ELSE None

\* the area the entry's device resolves to, or None
DeviceArea(entry) ==
    IF Truthy(entry.device_id) /\ entry.device_id[1] \in DOMAIN device_registry
       /\ Truthy(device_registry[entry.device_id[1]].area_id)
    THEN Lookup(area_registry, device_registry[entry.device_id[1]].area_id[1])
    ELSE None

\* the string field of info holds none of the names
HoldsNoneOf(info, field, nameSeq) ==
    field \in DOMAIN info
        => \A k \in 1..Len(nameSeq) : ~Contains(info[field], nameSeq[k])

\* C3, as claimed: an exposed entity whose entry carries an area_id never
\* shows the name or an alias of the different area of its device, also
\* when its own area_id is not in the area registry.
C3_DirectAreaAlwaysWins ==
    \A report \in Reports : \A i \in ExposedPositions :
        (/\ EntryAt(i) # None
         /\ Truthy(EntryAt(i)[1].area_id)
         /\ DeviceArea(EntryAt(i)[1]) # None
         /\ DeviceArea(EntryAt(i)[1]) # DirectArea(EntryAt(i)[1]))
            => HoldsNoneOf(InfoOf(report, states[i].entity_id), "areas",
                           AreaAndAliases(DeviceArea(EntryAt(i)[1])[1]))

\* C3, amended: an exposed entity whose own area_id is found in the area
\* registry has the areas field made of that area's name and aliases, and
\* the field shows no name or alias of the different area of its device.
C3_ResolvedDirectAreaWins ==
    \A report \in Reports : \A i \in ExposedPositions :
        (/\ EntryAt(i) # None
         /\ DirectArea(EntryAt(i)[1]) # None)
            => LET info == InfoOf(report, states[i].entity_id)
                   own == DirectArea(EntryAt(i)[1])[1]
                   dev == DeviceArea(EntryAt(i)[1])
               IN  /\ "areas" \in DOMAIN info
                   /\ info.areas = Join(<<own.name>> \o own.aliases)
                   /\ (dev # None /\ dev[1] # own)
                          => HoldsNoneOf(info, "areas", AreaAndAliases(dev[1]))

\* the light is in the kitchen, its device in the garage, and the report
\* gives the kitchen
C3_Witness ==
    /\ pc = "returned"
    /\ \E i \in ExposedPositions :
          /\ EntryAt(i) # None
          /\ EntryAt(i)[1].area_id = Some("kitchen")
          /\ DeviceArea(EntryAt(i)[1]) = Some(area_registry["garage"])
          /\ InfoOf(returned[1], states[i].entity_id).areas = "Kitchen, Cuisine"

\* the allow-listed attribute names of the state at position i
AllowedAt(i) == (DOMAIN states[i].attributes) \cap interesting_attributes

\* Python's ==, kind by kind, on an output value and an input value
SameValue(x, y) == x.kind = y.kind /\ x = y

\* C4, as claimed: an allow-listed attribute that is no int or float
\* brightness is output as its canonical string when it is an enum member,
\* a Decimal or an integer, and unchanged otherwise; so a boolean is copied
\* unchanged, under the name brightness too.
C4_OthersCopiedUnchanged ==
    \A report \in Reports : \A i \in ExposedPositions : \A n \in AllowedAt(i) :
        LET v == states[i].attributes[n]
            out == InfoOf(report, states[i].entity_id).attributes[n]
        IN  ~(n = "brightness" /\ v.kind \in {"int", "float"})
                => IF v.kind \in {"Enum", "Decimal", "int"}
                   THEN out = Str(v)
                   ELSE SameValue(out, v)

\* C5: an integer brightness v of 0..255 is output as the integer nearest
\* to v / 255 * 100: it lies in 0..100, no v falls on a tie (so rounding a
\* half up or to even agree), 0, 128 and 255 give 0, 50 and 100, and no
\* smaller v gives more.
C5_BrightnessRescaled ==
    \A report \in Reports : \A i \in ExposedPositions :
        ("brightness" \in DOMAIN states[i].attributes
         /\ states[i].attributes["brightness"].kind = "int"
         /\ states[i].attributes["brightness"].v \in 0..255)
            => LET v == states[i].attributes["brightness"].v
                   out == InfoOf(report, states[i].entity_id).attributes["brightness"]
               IN  /\ out.kind = "int"
                   /\ out.v \in 0..100
                   /\ 2 * (255 * out.v - 100 * v) < 255
                   /\ 2 * (100 * v - 255 * out.v) < 255
                   /\ out.v = (200 * v + 255) \div 510
                   /\ (v = 0 => out.v = 0)
                   /\ (v = 128 => out.v = 50)
                   /\ (v = 255 => out.v = 100)
                   /\ \A u \in 0..v : ConvertBrightness(PyInt(u)) <= out.v

\* brightness 128 was output as 50
C5_Witness ==
    /\ pc = "returned"
    /\ \E i \in ExposedPositions :
          /\ states[i].attributes = ("brightness" :> PyInt(128))
          /\ InfoOf(returned[1], states[i].entity_id).attributes["brightness"] = PyInt(50)

\* C6: the attribute names of an exposed entity's record are the entity's
\* attribute names that are on the allow-list of 13 names: a name off the
\* list, such as friendly_name, never shows, and every name on it does.
C6_AllowListOnly ==
    /\ Cardinality(interesting_attributes) = 13
    /\ \A report \in Reports : \A i \in ExposedPositions :
          LET keys == AttributeKeys(InfoOf(report, states[i].entity_id))
          IN  /\ keys = {n \in DOMAIN states[i].attributes : n \in interesting_attributes}
              /\ "friendly_name" \notin keys

\* a state with friendly_name and temperature gave a record with temperature
\* alone
C6_Witness ==
    /\ pc = "returned"
    /\ \E i \in ExposedPositions :
          /\ DOMAIN states[i].attributes = {"friendly_name", "temperature"}
          /\ AttributeKeys(InfoOf(returned[1], states[i].entity_id)) = {"temperature"}

\* C7: the names field is the state's name followed by the aliases of its
\* registry entry in their order, joined with ", "; without an entry it is
\* the name alone and there is no areas field; "Light 1" with the aliases
\* "Lamp A", "Bedroom Lamp" gives "Light 1, Lamp A, Bedroom Lamp".
C7_NamesJoined ==
    \A report \in Reports : \A i \in ExposedPositions :
        LET info == InfoOf(report, states[i].entity_id)
        IN  /\ EntryAt(i) = None
                => info.names = states[i].name /\ "areas" \notin DOMAIN info
            /\ EntryAt(i) # None
                => info.names = Join(<<states[i].name>> \o EntryAt(i)[1].aliases)
            /\ (/\ EntryAt(i) # None
                /\ states[i].name = "Light 1"
                /\ EntryAt(i)[1].aliases = <<"Lamp A", "Bedroom Lamp">>)
                => info.names = "Light 1, Lamp A, Bedroom Lamp"

\* the light with the aliases Lamp A, Bedroom Lamp was reported
C7_Witness ==
    /\ pc = "returned"
    /\ \E i \in ExposedPositions :
          /\ EntryAt(i) # None
          /\ EntryAt(i)[1].aliases = <<"Lamp A", "Bedroom Lamp">>
          /\ InfoOf(returned[1], states[i].entity_id).names = "Light 1, Lamp A, Bedroom Lamp"

\* no area resolves for the state at position i: no entry, or neither the
\* entry's own area nor its device's area is found
NothingResolves(i) ==
    \/ EntryAt(i) = None
    \/ DirectArea(EntryAt(i)[1]) = None /\ DeviceArea(EntryAt(i)[1]) = None

\* C8: a registry miss (no entry, a dangling area_id, a dangling device_id,
\* a device without area) stops nothing: the loop always has a next step,
\* every exposed entity is in the report with its names, domain and state,
\* and when nothing resolves the record has no areas field.
C8_MissesDegrade ==
    /\ pc = "loop" => ENABLED (Skip \/ Emit \/ Return)
    /\ \A report \in Reports : \A i \in ExposedPositions :
          /\ Holders(report, states[i].entity_id) # {}
          /\ LET info == InfoOf(report, states[i].entity_id)
             IN  /\ {"names", "domain", "state"} \subseteq DOMAIN info
                 /\ info.domain = states[i].domain
                 /\ info.state = states[i].state
                 /\ EntryAt(i) = None => info.names = states[i].name
                 /\ NothingResolves(i) => "areas" \notin DOMAIN info

\* an entity whose area_id and device_id both dangle was reported, without
\* an areas field
C8_Witness ==
    /\ pc = "returned"
    /\ \E i \in ExposedPositions :
          /\ EntryAt(i) # None
          /\ EntryAt(i)[1].area_id = Some("attic")
          /\ EntryAt(i)[1].device_id = Some("ghost")
          /\ Holders(returned[1], states[i].entity_id) = {"entities"}
          /\ "areas" \notin DOMAIN InfoOf(returned[1], states[i].entity_id)

\* C9: a record always has names, domain and state and never description;
\* it has areas exactly when an area resolved, and attributes exactly when
\* an attribute passed the allow-list, so never an empty attributes dict.
C9_RecordFields ==
    \A report \in Reports : \A i \in ExposedPositions :
        LET info == InfoOf(report, states[i].entity_id)
        IN  /\ {"names", "domain", "state"} \subseteq DOMAIN info
            /\ "description" \notin DOMAIN info
            /\ "areas" \in DOMAIN info <=> ~NothingResolves(i)
            /\ "attributes" \in DOMAIN info <=> AllowedAt(i) # {}
            /\ "attributes" \in DOMAIN info => DOMAIN info.attributes # {}
            /\ DOMAIN info \subseteq {"names", "domain", "state", "areas", "attributes"}

\* a record with neither areas nor attributes was reported for a state whose
\* only attribute is off the allow-list
C9_Witness ==
    /\ pc = "returned"
    /\ \E i \in ExposedPositions :
          /\ DOMAIN states[i].attributes = {"friendly_name"}
          /\ EntryAt(i) = None
          /\ DOMAIN InfoOf(returned[1], states[i].entity_id) = {"names", "domain", "state"}

\* C10: every call with the same inputs returns the same report, and no
\* step of a call changes the states, the registries, the exposure settings
\* or the assistant.
C10_SameInputsSameReport ==
    /\ [](\A k, l \in 1..Len(returned) : returned[k] = returned[l])
    /\ [][inputs' = inputs]_vars

\* the second call returned, for a snapshot with an exposed entity of the
\* domain "entities" and an exposed script
C10_Witness ==
    /\ pc = "returned"
    /\ Len(returned) >= 2
    /\ returned[2] = returned[1]
    /\ \E i, j \in ExposedPositions :
          /\ states[i].domain = "entities"
          /\ Holders(returned[2], states[i].entity_id) = {"entities"}
          /\ Holders(returned[2], states[j].entity_id) = {"script"}

====
